---- MODULE Spec2Model ----
(***************************************************************************)
(* Two-layer ReLU network trained by gradient descent, in two variants:    *)
(* numpy_to_pytorch.py derives the gradients by hand, pytorch_solution.py  *)
(* obtains them from loss.backward().  Tensors are two-dimensional arrays  *)
(* of fixed-point numbers (an integer n stands for n / Scale); every       *)
(* product is rounded to the nearest representable number, as a finite     *)
(* precision tensor library does.                                          *)
(***************************************************************************)
EXTENDS Integers, Sequences, FiniteSets, TLC

VARIABLES seed, dimensions, N_batch, maxiter, m, a

vars == <<seed, dimensions, N_batch, maxiter, m, a>>

(* ------------------------------ bounds -------------------------------- *)
MaxSeed == 80       \* seeds 0..MaxSeed of the random generator
MaxDim == 2         \* every layer size of a conformant run is in 1..MaxDim
BatchSize == 2      \* N_batch of the model
MaxIter == 3        \* loop length of the wide-input specifications
MaxDimErr == 3      \* layer sizes of the runs with arbitrary size lists
MaxSeedErr == 2     \* seeds of the runs with arbitrary size lists
FullStride == 18    \* the seeds run with the loop as long as written are the multiples of it

(* ------------------------- program constants -------------------------- *)
MAXITER == 2500
SKIP == 100
EtaNum == 5         \* eta = 5e-6 = EtaNum / EtaDen
EtaDen == 1000000

(* --------------------------- arithmetic ------------------------------- *)
\* An integer n stands for the number n / Scale.  Scale = Base * Base, and a
\* product is computed digit by digit in base Base, so that no intermediate
\* result is wider than the product itself.
Base == 1000
Scale == Base * Base

\* n / d rounded to the nearest integer (d > 0 and even)
RoundDiv(n, d) == (n + d \div 2) \div d

\* product of two fixed-point numbers: x * w / Scale, rounded to the nearest
FxMul(x, w) ==
    LET xq == x \div Scale
        xr == x % Scale
        wq == w \div Scale
        wr == w % Scale
        xh == xr \div Base
        xl == xr % Base
        wh == wr \div Base
        wl == wr % Base
    IN xq * wq * Scale + xq * wr + xr * wq + xh * wh
       + RoundDiv((xh * wl + xl * wh) * Base + xl * wl, Scale)

\* eta * g
MulEta(g) == RoundDiv(EtaNum * g, EtaDen)

\* 0.5 * x
HalfOf(x) == RoundDiv(x, 2)

RECURSIVE SumF(_, _)
SumF(f, n) == IF n = 0 THEN 0 ELSE f[n] + SumF(f, n - 1)

(* ----------------------------- tensors -------------------------------- *)
NoneT == [r |-> 0, c |-> 0, v |-> <<>>]       \* a name not yet bound
ErrT == [r |-> -1, c |-> -1, v |-> <<>>]      \* the operation raised
IsErr(t) == t.r < 0

Tensor(rows, cols, F(_, _)) ==
    [r |-> rows, c |-> cols, v |-> [i \in 1..rows |-> [j \in 1..cols |-> F(i, j)]]]

\* torch.mm
Mm(A, B) ==
    IF IsErr(A) \/ IsErr(B) \/ A.c # B.r THEN ErrT
    ELSE LET F(i, j) == SumF([k \in 1..A.c |-> FxMul(A.v[i][k], B.v[k][j])], A.c)
         IN Tensor(A.r, B.c, F)

\* .T
Transpose(A) ==
    IF IsErr(A) THEN ErrT
    ELSE LET F(i, j) == A.v[j][i] IN Tensor(A.c, A.r, F)

\* broadcasting of two 2-D shapes
BcOk(p, q) == p = q \/ p = 1 \/ q = 1
BcDim(p, q) == IF p = 1 THEN q ELSE p
BcIdx(i, n) == IF n = 1 THEN 1 ELSE i
Broadcastable(A, B) == BcOk(A.r, B.r) /\ BcOk(A.c, B.c)

\* A + B
Add(A, B) ==
    IF IsErr(A) \/ IsErr(B) \/ ~Broadcastable(A, B) THEN ErrT
    ELSE LET F(i, j) == A.v[BcIdx(i, A.r)][BcIdx(j, A.c)] + B.v[BcIdx(i, B.r)][BcIdx(j, B.c)]
         IN Tensor(BcDim(A.r, B.r), BcDim(A.c, B.c), F)

\* A - B
Sub(A, B) ==
    IF IsErr(A) \/ IsErr(B) \/ ~Broadcastable(A, B) THEN ErrT
    ELSE LET F(i, j) == A.v[BcIdx(i, A.r)][BcIdx(j, A.c)] - B.v[BcIdx(i, B.r)][BcIdx(j, B.c)]
         IN Tensor(BcDim(A.r, B.r), BcDim(A.c, B.c), F)

\* A * (Z > 0): elementwise product with a boolean mask
MulStep(A, Z) ==
    IF IsErr(A) \/ IsErr(Z) \/ ~Broadcastable(A, Z) THEN ErrT
    ELSE LET F(i, j) == IF Z.v[BcIdx(i, Z.r)][BcIdx(j, Z.c)] > 0
                        THEN A.v[BcIdx(i, A.r)][BcIdx(j, A.c)] ELSE 0
         IN Tensor(BcDim(A.r, Z.r), BcDim(A.c, Z.c), F)

\* torch.relu
Relu(Z) ==
    IF IsErr(Z) THEN ErrT
    ELSE LET F(i, j) == IF Z.v[i][j] > 0 THEN Z.v[i][j] ELSE 0 IN Tensor(Z.r, Z.c, F)

\* torch.ones
Ones(rows, cols) == LET F(i, j) == Scale IN Tensor(rows, cols, F)

\* mutant: the sign of the step is wrong
EtaTimes_WrongSign(G) ==
    IF IsErr(G) THEN ErrT
    ELSE LET F(i, j) == -MulEta(G.v[i][j]) IN Tensor(G.r, G.c, F)

\* eta * G
EtaTimes(G) ==
    IF IsErr(G) THEN ErrT
    ELSE LET F(i, j) == MulEta(G.v[i][j]) IN Tensor(G.r, G.c, F)

\* .pow(2)
Pow2(A) ==
    IF IsErr(A) THEN ErrT
    ELSE LET F(i, j) == FxMul(A.v[i][j], A.v[i][j]) IN Tensor(A.r, A.c, F)

\* .sum(): the sum of all entries
SumAll(A) == SumF([i \in 1..A.r |-> SumF(A.v[i], A.c)], A.r)

\* mutant: the square is forgotten
LossOf_NoSquare(A2, y) == HalfOf(SumAll(Sub(A2, y)))

\* 0.5 * (A2 - y).pow(2).sum()
LossOf(A2, y) == HalfOf(SumAll(Pow2(Sub(A2, y))))

(* ------------------------ random generator ---------------------------- *)
\* The values a draw can take (in thousandths) and the number of base-K digits
\* of a seed that the stream of draws cycles through.
Vals == <<-1000, 0, 1000>>
K == Len(Vals)
NDigits == 4

RECURSIVE Pow(_, _)
Pow(b, n) == IF n = 0 THEN 1 ELSE b * Pow(b, n - 1)

\* the k-th number (k = 0, 1, ...) of the stream of seed s
Draw(s, k) == Vals[(((s \div Pow(K, k % NDigits)) + (k \div NDigits)) % K) + 1] * (Scale \div 1000)

\* torch.randn(rows, cols), the stream being at offset off
Randn(s, off, rows, cols) ==
    LET F(i, j) == Draw(s, off + (i - 1) * cols + (j - 1)) IN Tensor(rows, cols, F)

(* ---------------------- the scripts' statements ----------------------- *)
\* A script's variables: s.pc is its position, "error" once a statement raised.
Unbound ==
    [pc |-> "setup", epoch |-> -1, X |-> NoneT, y |-> NoneT,
     W1 |-> NoneT, W2 |-> NoneT, b1 |-> NoneT, b2 |-> NoneT,
     Z1 |-> NoneT, A1 |-> NoneT, A2 |-> NoneT, loss |-> <<>>,
     grad_W1 |-> NoneT, grad_b1 |-> NoneT, grad_W2 |-> NoneT, grad_b2 |-> NoneT,
     out |-> <<>>, cycles |-> 0]

Raise(s) == [s EXCEPT !.pc = "error"]
Raised(s) == s.pc = "error"

\* dimensions[i] of Python (i >= 0), dimensions[-1] being the last entry
HasIndex(i) == i + 1 <= Len(dimensions)
Dim(i) == dimensions[i + 1]
DimLast == dimensions[Len(dimensions)]

\* lines 4-11 (2-9 of pytorch_solution.py): the six randn calls, in order
CreateData(s) ==
    IF ~HasIndex(0) THEN Raise(s)
    ELSE [s EXCEPT !.X = Randn(seed, 0, Dim(0), N_batch),
                   !.y = Randn(seed, Dim(0) * N_batch, DimLast, N_batch)]

CreateW1(s) ==
    IF Raised(s) THEN s
    ELSE IF ~HasIndex(1) THEN Raise(s)
    ELSE [s EXCEPT !.W1 = Randn(seed, (s.X.r + s.y.r) * N_batch, Dim(1), Dim(0))]

CreateW2(s) ==
    IF Raised(s) THEN s
    ELSE IF ~HasIndex(2) THEN Raise(s)
    ELSE [s EXCEPT !.W2 = Randn(seed, (s.X.r + s.y.r) * N_batch + s.W1.r * s.W1.c,
                                Dim(2), Dim(1))]

CreateBiases(s) ==
    IF Raised(s) THEN s
    ELSE LET off == (s.X.r + s.y.r) * N_batch + s.W1.r * s.W1.c + s.W2.r * s.W2.c
         IN [s EXCEPT !.b1 = Randn(seed, off, Dim(1), 1),
                      !.b2 = Randn(seed, off + Dim(1), Dim(2), 1)]

SetupStmts(s) == CreateBiases(CreateW2(CreateW1(CreateData(s))))

\* Z1 = torch.mm(W1, X) + b1 ; A1 = torch.relu(Z1)
Layer1(s) ==
    LET Z1 == Add(Mm(s.W1, s.X), s.b1)
    IN IF IsErr(Z1) THEN Raise(s) ELSE [s EXCEPT !.Z1 = Z1, !.A1 = Relu(Z1)]

\* Z2 = torch.mm(W2, A1) + b2 ; A2 = Z2
Layer2(s) ==
    IF Raised(s) THEN s
    ELSE LET Z2 == Add(Mm(s.W2, s.A1), s.b2)
         IN IF IsErr(Z2) THEN Raise(s) ELSE [s EXCEPT !.A2 = Z2]

ForwardStmts(s) == Layer2(Layer1(s))

\* loss = 0.5 * (A2 - y).pow(2).sum()
ComputeLoss(s) ==
    IF IsErr(Sub(s.A2, s.y)) THEN Raise(s)
    ELSE [s EXCEPT !.loss = <<LossOf(s.A2, s.y)>>]

\* mutant: prints at the end of each block of SKIP iterations
ShouldPrint_BlockEnd(epoch) == (epoch + 1) % SKIP = 0

\* if (divmod(epoch, SKIP)[1]==0): print(epoch, loss.item())
ShouldPrint(epoch) == epoch % SKIP = 0

PrintLoss(s) ==
    IF Raised(s) THEN s
    ELSE IF ShouldPrint(s.epoch) THEN [s EXCEPT !.out = Append(s.out, <<s.epoch, s.loss[1]>>)]
    ELSE s

LossStmts(s) == PrintLoss(ComputeLoss(s))

(* ------------- manual backpropagation (numpy_to_pytorch.py) ----------- *)
\* delta2 = (A2 - y)
Delta2(s) == Sub(s.A2, s.y)

\* mutant: the step function is taken as 1 at Z1 = 0
Delta1_StepAtZero(s) ==
    LET B == Mm(Transpose(s.W2), Delta2(s))
        F(i, j) == IF s.Z1.v[i][j] >= 0 THEN B.v[i][j] ELSE 0
    IN Tensor(B.r, B.c, F)

\* delta1 = torch.mm(W2.T, delta2) * (Z1>0)
Delta1(s) == MulStep(Mm(Transpose(s.W2), Delta2(s)), s.Z1)

\* grad_W2 = torch.mm(delta2, A1.T)
GradW2(s) ==
    LET g == Mm(Delta2(s), Transpose(s.A1))
    IN IF IsErr(g) THEN Raise(s) ELSE [s EXCEPT !.grad_W2 = g]

\* mutant: delta2 is not summed over the batch
GradB2_NoSum(s) == IF Raised(s) THEN s ELSE [s EXCEPT !.grad_b2 = Delta2(s)]

\* grad_b2 = torch.mm(delta2, torch.ones(N_batch, 1))
GradB2(s) ==
    IF Raised(s) THEN s
    ELSE LET g == Mm(Delta2(s), Ones(N_batch, 1))
         IN IF IsErr(g) THEN Raise(s) ELSE [s EXCEPT !.grad_b2 = g]

\* grad_W1 = torch.mm(delta1, X.T)
GradW1(s) ==
    IF Raised(s) THEN s
    ELSE LET g == Mm(Delta1(s), Transpose(s.X))
         IN IF IsErr(g) THEN Raise(s) ELSE [s EXCEPT !.grad_W1 = g]

\* grad_b1 = torch.mm(delta1, torch.ones(N_batch, 1))
GradB1(s) ==
    IF Raised(s) THEN s
    ELSE LET g == Mm(Delta1(s), Ones(N_batch, 1))
         IN IF IsErr(g) THEN Raise(s) ELSE [s EXCEPT !.grad_b1 = g]

ManualBackward(s) == GradB1(GradW1(GradB2(GradW2(s))))

\* W1 = W1 - eta * grad_W1, and so on: each line rebinds its name
StepW1(s) ==
    LET t == Sub(s.W1, EtaTimes(s.grad_W1))
    IN IF IsErr(t) THEN Raise(s) ELSE [s EXCEPT !.W1 = t]

Stepb1(s) ==
    IF Raised(s) THEN s
    ELSE LET t == Sub(s.b1, EtaTimes(s.grad_b1))
         IN IF IsErr(t) THEN Raise(s) ELSE [s EXCEPT !.b1 = t]

StepW2(s) ==
    IF Raised(s) THEN s
    ELSE LET t == Sub(s.W2, EtaTimes(s.grad_W2))
         IN IF IsErr(t) THEN Raise(s) ELSE [s EXCEPT !.W2 = t]

\* mutant: the update of b2 is left out
Stepb2_LeftOut(s) == s

Stepb2(s) ==
    IF Raised(s) THEN s
    ELSE LET t == Sub(s.b2, EtaTimes(s.grad_b2))
         IN IF IsErr(t) THEN Raise(s) ELSE [s EXCEPT !.b2 = t]

CountCycle(s) == IF Raised(s) THEN s ELSE [s EXCEPT !.cycles = s.cycles + 1]

ManualUpdate(s) == CountCycle(Stepb2(StepW2(Stepb1(StepW1(s)))))

(* ------------ automatic differentiation (pytorch_solution.py) --------- *)
\* The gradient of a broadcast operand: the sum over the broadcast dimensions.
SumToSize(G, rows, cols) ==
    IF IsErr(G) THEN ErrT
    ELSE LET F(i, j) ==
               SumF([p \in 1..(IF rows = 1 THEN G.r ELSE 1) |->
                     SumF([q \in 1..(IF cols = 1 THEN G.c ELSE 1) |->
                           G.v[IF rows = 1 THEN p ELSE i][IF cols = 1 THEN q ELSE j]],
                          IF cols = 1 THEN G.c ELSE 1)],
                    IF rows = 1 THEN G.r ELSE 1)
         IN Tensor(rows, cols, F)

\* d loss / d (A2 - y): the scalar 0.5 times the derivative 2 * (A2 - y) of pow(2)
GradDiff(s) ==
    LET D == Sub(s.A2, s.y)
        F(i, j) == HalfOf(2 * D.v[i][j])
    IN Tensor(D.r, D.c, F)

\* d loss / d Z2, Z2 = A2 being the first operand of the subtraction
GradZ2(s) == SumToSize(GradDiff(s), s.A2.r, s.A2.c)

\* d loss / d (W2 A1), the first operand of "+ b2"
GradMm2(s) == SumToSize(GradZ2(s), s.W2.r, s.A1.c)

\* d loss / d Z1: relu passes the gradient where its result is positive
GradZ1(s) == MulStep(Mm(Transpose(s.W2), GradMm2(s)), s.A1)

\* d loss / d (W1 X), the first operand of "+ b1"
GradMm1(s) == SumToSize(GradZ1(s), s.W1.r, s.X.c)

\* mutant: backward() overwrites P.grad
Accumulate_Overwrite(old, g) == g

\* what backward() adds to P.grad (a .grad that is None is set)
Accumulate(old, g) == IF old = NoneT THEN g ELSE Add(old, g)

\* loss.backward()
AutoBackward(s) ==
    [s EXCEPT !.grad_W2 = Accumulate(s.grad_W2, Mm(GradMm2(s), Transpose(s.A1))),
              !.grad_b2 = Accumulate(s.grad_b2, SumToSize(GradZ2(s), s.b2.r, s.b2.c)),
              !.grad_W1 = Accumulate(s.grad_W1, Mm(GradMm1(s), Transpose(s.X))),
              !.grad_b1 = Accumulate(s.grad_b1, SumToSize(GradZ1(s), s.b1.r, s.b1.c))]

\* P -= D: in place, so the result must have the shape of P
InPlaceSub(P, D) ==
    LET t == Sub(P, D)
    IN IF IsErr(t) \/ t.r # P.r \/ t.c # P.c THEN ErrT ELSE t

\* W1 -= eta * W1.grad, and so on
InPlaceW1(s) ==
    LET t == InPlaceSub(s.W1, EtaTimes(s.grad_W1))
    IN IF IsErr(t) THEN Raise(s) ELSE [s EXCEPT !.W1 = t]

InPlaceb1(s) ==
    IF Raised(s) THEN s
    ELSE LET t == InPlaceSub(s.b1, EtaTimes(s.grad_b1))
         IN IF IsErr(t) THEN Raise(s) ELSE [s EXCEPT !.b1 = t]

InPlaceW2(s) ==
    IF Raised(s) THEN s
    ELSE LET t == InPlaceSub(s.W2, EtaTimes(s.grad_W2))
         IN IF IsErr(t) THEN Raise(s) ELSE [s EXCEPT !.W2 = t]

InPlaceb2(s) ==
    IF Raised(s) THEN s
    ELSE LET t == InPlaceSub(s.b2, EtaTimes(s.grad_b2))
         IN IF IsErr(t) THEN Raise(s) ELSE [s EXCEPT !.b2 = t]

AutoUpdate(s) == CountCycle(InPlaceb2(InPlaceW2(InPlaceb1(InPlaceW1(s)))))

\* G.zero_()
Zeroed(G) == LET F(i, j) == 0 IN Tensor(G.r, G.c, F)

\* mutant: the reset of the two bias gradients is forgotten
ZeroGrads_WeightsOnly(s) ==
    [s EXCEPT !.grad_W1 = Zeroed(s.grad_W1), !.grad_W2 = Zeroed(s.grad_W2)]

\* the four grad.zero_() calls
ZeroGrads(s) ==
    [s EXCEPT !.grad_W1 = Zeroed(s.grad_W1), !.grad_W2 = Zeroed(s.grad_W2),
              !.grad_b1 = Zeroed(s.grad_b1), !.grad_b2 = Zeroed(s.grad_b2)]

(* ------------------------------ control ------------------------------- *)
\* mutant: the loop stops once grad_W2 and grad_b2 have vanished
LoopStmt_StopsWhenFlat(s) ==
    IF /\ s.epoch + 1 < maxiter
       /\ ~(/\ s.epoch >= 0
            /\ \A i \in 1..s.grad_W2.r : \A j \in 1..s.grad_W2.c : s.grad_W2.v[i][j] = 0
            /\ \A i \in 1..s.grad_b2.r : s.grad_b2.v[i][1] = 0)
    THEN [s EXCEPT !.epoch = s.epoch + 1, !.pc = "forward"]
    ELSE [s EXCEPT !.pc = "done"]

\* for epoch in range(MAXITER)
LoopStmt(s) ==
    IF s.epoch + 1 < maxiter
    THEN [s EXCEPT !.epoch = s.epoch + 1, !.pc = "forward"]
    ELSE [s EXCEPT !.pc = "done"]

\* the position reached when the statements of a step did not raise
Advance(s, next) == IF Raised(s) THEN s ELSE [s EXCEPT !.pc = next]

Stopped(s) == s.pc \in {"done", "error"}

\* The two scripts share no variable, so their steps commute; the model keeps
\* them within one step of each other, which reaches every pair of states at
\* the same position in the two scripts.
Rank(pc) ==
    CASE pc = "forward" -> 1
      [] pc = "loss" -> 2
      [] pc = "backward" -> 3
      [] pc = "update" -> 4
      [] pc = "zero" -> 5
      [] OTHER -> 0

Pos(s) ==
    IF Stopped(s) THEN 6 * (maxiter + 2)
    ELSE IF s.pc = "setup" THEN 0
    ELSE IF s.pc = "for" THEN 6 * (s.epoch + 2)
    ELSE 6 * (s.epoch + 1) + Rank(s.pc)

MayStep(s, other) == Pos(s) <= Pos(other)

(* ---------------- actions of numpy_to_pytorch.py ---------------------- *)
M_Setup ==
    /\ m.pc = "setup" /\ MayStep(m, a)
    /\ m' = Advance(SetupStmts(m), "for")
    /\ UNCHANGED <<seed, dimensions, N_batch, maxiter, a>>

M_Loop ==
    /\ m.pc = "for" /\ MayStep(m, a)
    /\ m' = LoopStmt(m)
    /\ UNCHANGED <<seed, dimensions, N_batch, maxiter, a>>

M_Forward ==
    /\ m.pc = "forward" /\ MayStep(m, a)
    /\ m' = Advance(ForwardStmts(m), "loss")
    /\ UNCHANGED <<seed, dimensions, N_batch, maxiter, a>>

M_Loss ==
    /\ m.pc = "loss" /\ MayStep(m, a)
    /\ m' = Advance(LossStmts(m), "backward")
    /\ UNCHANGED <<seed, dimensions, N_batch, maxiter, a>>

M_Backward ==
    /\ m.pc = "backward" /\ MayStep(m, a)
    /\ m' = Advance(ManualBackward(m), "update")
    /\ UNCHANGED <<seed, dimensions, N_batch, maxiter, a>>

M_Update ==
    /\ m.pc = "update" /\ MayStep(m, a)
    /\ m' = Advance(ManualUpdate(m), "for")
    /\ UNCHANGED <<seed, dimensions, N_batch, maxiter, a>>

(* ---------------- actions of pytorch_solution.py ---------------------- *)
A_Setup ==
    /\ a.pc = "setup" /\ MayStep(a, m)
    /\ a' = Advance(SetupStmts(a), "for")
    /\ UNCHANGED <<seed, dimensions, N_batch, maxiter, m>>

A_Loop ==
    /\ a.pc = "for" /\ MayStep(a, m)
    /\ a' = LoopStmt(a)
    /\ UNCHANGED <<seed, dimensions, N_batch, maxiter, m>>

A_Forward ==
    /\ a.pc = "forward" /\ MayStep(a, m)
    /\ a' = Advance(ForwardStmts(a), "loss")
    /\ UNCHANGED <<seed, dimensions, N_batch, maxiter, m>>

A_Loss ==
    /\ a.pc = "loss" /\ MayStep(a, m)
    /\ a' = Advance(LossStmts(a), "backward")
    /\ UNCHANGED <<seed, dimensions, N_batch, maxiter, m>>

A_Backward ==
    /\ a.pc = "backward" /\ MayStep(a, m)
    /\ a' = Advance(AutoBackward(a), "update")
    /\ UNCHANGED <<seed, dimensions, N_batch, maxiter, m>>

A_Update ==
    /\ a.pc = "update" /\ MayStep(a, m)
    /\ a' = Advance(AutoUpdate(a), "zero")
    /\ UNCHANGED <<seed, dimensions, N_batch, maxiter, m>>

A_Zero ==
    /\ a.pc = "zero" /\ MayStep(a, m)
    /\ a' = Advance(ZeroGrads(a), "for")
    /\ UNCHANGED <<seed, dimensions, N_batch, maxiter, m>>

\* pytorch_solution.py with lines 33-37 left out
A_UpdateOnly ==
    /\ a.pc = "update" /\ MayStep(a, m)
    /\ a' = Advance(AutoUpdate(a), "for")
    /\ UNCHANGED <<seed, dimensions, N_batch, maxiter, m>>

(* --------------------------- specifications --------------------------- *)
Triples == [1..3 -> 1..MaxDim]
SizeLists == UNION {[1..n -> 1..MaxDimErr] : n \in 2..4}

\* every seed and every conformant size triple, the loop shortened to MaxIter
Init ==
    /\ seed \in 0..MaxSeed
    /\ dimensions \in Triples
    /\ N_batch = BatchSize
    /\ maxiter = MaxIter
    /\ m = Unbound /\ a = Unbound

Next ==
    \/ M_Setup \/ M_Loop \/ M_Forward \/ M_Loss \/ M_Backward \/ M_Update
    \/ A_Setup \/ A_Loop \/ A_Forward \/ A_Loss \/ A_Backward \/ A_Update \/ A_Zero

Spec == Init /\ [][Next]_vars

\* pytorch_solution.py without its zero-reset step (lines 33-37)
NextNoZero ==
    \/ M_Setup \/ M_Loop \/ M_Forward \/ M_Loss \/ M_Backward \/ M_Update
    \/ A_Setup \/ A_Loop \/ A_Forward \/ A_Loss \/ A_Backward \/ A_UpdateOnly

SpecNoZero == Init /\ [][NextNoZero]_vars

\* a few seeds, the loop as long as written
InitFull ==
    /\ seed \in {s \in 0..MaxSeed : s % FullStride = 0}
    /\ dimensions = [i \in 1..3 |-> IF i = 2 THEN MaxDim ELSE 1]
    /\ N_batch = BatchSize
    /\ maxiter = MAXITER
    /\ m = Unbound /\ a = Unbound

SpecFull == InitFull /\ [][Next]_vars

\* any list of two to four layer sizes
InitDims ==
    /\ seed \in 0..MaxSeedErr
    /\ dimensions \in SizeLists
    /\ N_batch = BatchSize
    /\ maxiter = MaxIter
    /\ m = Unbound /\ a = Unbound

SpecDims == InitDims /\ [][Next]_vars

(* ------------------------------ properties ---------------------------- *)
Entries(T) == {T.v[i][j] : i \in 1..T.r, j \in 1..T.c}
NonZero(T) == \E x \in Entries(T) : x # 0
Shape(T) == <<T.r, T.c>>
Params(s) == <<s.W1, s.b1, s.W2, s.b2>>
Grads(s) == <<s.grad_W1, s.grad_b1, s.grad_W2, s.grad_b2>>
SameIteration == m.pc = "update" /\ a.pc = "update" /\ m.epoch = a.epoch

\* C1: whenever both scripts, started from the same tensors, have computed the
\* gradients of the same iteration, the hand-derived grad_W1, grad_b1, grad_W2,
\* grad_b2 equal W1.grad, b1.grad, W2.grad, b2.grad left by loss.backward().
C1_GradientsAgree == SameIteration => Grads(m) = Grads(a)

\* C1 witness: a later iteration in which a hidden unit sits exactly at Z1 = 0
\* for a sample whose back-propagated error W2^T delta2 is not zero, another
\* entry of Z1 is positive and all four gradients are non-zero.
C1_Witness ==
    /\ SameIteration /\ m.epoch >= 1
    /\ \E i \in 1..m.Z1.r, j \in 1..m.Z1.c :
          m.Z1.v[i][j] = 0 /\ Mm(Transpose(m.W2), Delta2(m)).v[i][j] # 0
    /\ \E z \in Entries(m.Z1) : z > 0
    /\ \A i \in 1..4 : NonZero(Grads(m)[i]) /\ NonZero(Grads(a)[i])

\* the gradient of the current iteration's loss alone, from the current parameters
FreshGrads(s) ==
    Grads(AutoBackward(ForwardStmts([s EXCEPT !.grad_W1 = NoneT, !.grad_b1 = NoneT,
                                               !.grad_W2 = NoneT, !.grad_b2 = NoneT])))

\* C2: in pytorch_solution.py every .grad is zero once an iteration's update and
\* reset are over, and the gradients held when the update starts are those of
\* the current iteration's loss alone.
C2_NoAccumulation ==
    /\ (a.pc = "update" => Grads(a) = FreshGrads(a))
    /\ (a.pc = "for" /\ a.epoch >= 0 => \A i \in 1..4 : ~NonZero(Grads(a)[i]))

\* C2 witness: the update of the third iteration is about to start, every
\* gradient is non-zero and the parameters have moved since the first iteration.
C2_Witness ==
    /\ a.pc = "update" /\ a.epoch = 2
    /\ \A i \in 1..4 : NonZero(Grads(a)[i])
    /\ \A i \in 1..4 : Params(a)[i] # Params(SetupStmts(Unbound))[i]

\* some gradient of the first iteration is not zero
FirstGradientNonZero ==
    LET s0 == ManualBackward(ForwardStmts(SetupStmts(Unbound)))
    IN \E i \in 1..4 : NonZero(Grads(s0)[i])

C4_LossNonNegative ==
    /\ (m.loss # <<>> => m.loss[1] >= 0)
    /\ (a.loss # <<>> => a.loss[1] >= 0)

\* C4 witness: a positive loss of a later iteration with a negative difference
\* A2 - y among the entries.
C4_Witness ==
    /\ m.pc = "backward" /\ m.epoch >= 1 /\ m.loss[1] > 0
    /\ a.pc = "backward" /\ a.epoch >= 1 /\ a.loss[1] > 0
    /\ \E d \in Entries(Delta2(m)) : d < 0
    /\ \E d \in Entries(Delta2(m)) : d > 0

\* the number of completed iterations that a script's position implies
CyclesAt(s) ==
    IF s.pc \in {"forward", "loss", "backward", "update"} THEN s.epoch ELSE s.epoch + 1

BothDone == m.pc = "done" /\ a.pc = "done"

\* a statement of one of the scripts is ready to run
CanStep == (~Stopped(m) /\ MayStep(m, a)) \/ (~Stopped(a) /\ MayStep(a, m))

\* C5: both scripts run to "done" and are there after exactly MAXITER cycles:
\* no statement raises, the cycles done are those the loop index implies (none
\* skipped or repeated), a script that is done has done MAXITER cycles, some
\* statement is ready to run until both are done, and every step moves one
\* script forward (so that the runs are finite).
C5_RunsExactlyMaxIter ==
    /\ [](/\ m.cycles = CyclesAt(m) /\ a.cycles = CyclesAt(a)
          /\ (m.pc = "done" => m.cycles = MAXITER)
          /\ (a.pc = "done" => a.cycles = MAXITER)
          /\ m.pc # "error" /\ a.pc # "error"
          /\ (BothDone \/ CanStep))
    /\ [][Pos(m') + Pos(a') > Pos(m) + Pos(a)]_vars

\* C5 witness: both scripts are done, 2500 cycles each.
C5_Witness == BothDone /\ m.cycles = MAXITER /\ a.cycles = MAXITER /\ m.epoch = MAXITER - 1

\* the number of lines printed so far, by the script's position
LinesAt(s) ==
    IF s.epoch < 0 THEN 0
    ELSE (s.epoch \div SKIP)
         + (IF s.pc \in {"forward", "loss"} /\ s.epoch % SKIP = 0 THEN 0 ELSE 1)

\* the loss of the forward pass from the script's current parameters
LossNow(s) == LossOf(ForwardStmts(s).A2, s.y)

LinesOk(s) ==
    /\ Len(s.out) = LinesAt(s)
    /\ \A k \in 1..Len(s.out) : s.out[k][1] = (k - 1) * SKIP
    /\ (s.out # <<>> => s.out[1] = <<0, LossNow(SetupStmts(Unbound))>>)
    /\ (s.pc \in {"backward", "update"} /\ s.epoch % SKIP = 0
          => s.out[Len(s.out)] = <<s.epoch, LossNow(s)>>)
    /\ (s.pc = "done" => Len(s.out) = 25 /\ s.out[25][1] = 2400)

\* C6: one line per iteration whose index is a multiple of SKIP, in increasing
\* order and nowhere else (25 lines, the last for epoch 2400); a line carries
\* the index and the loss of that iteration's parameters before their update,
\* the first line the loss of the initial parameters.
C6_LogLines == LinesOk(m) /\ LinesOk(a)

\* C6 witness: both scripts are done with 25 lines, the losses printed going
\* down from the first to the last line.
C6_Witness ==
    /\ BothDone /\ Len(m.out) = 25 /\ Len(a.out) = 25
    /\ m.out[25][2] < m.out[1][2] /\ m.out[2][2] < m.out[1][2]

\* the first update changes some parameter
FirstUpdateMoves ==
    LET s0 == SetupStmts(Unbound)
    IN Params(ManualUpdate(ManualBackward(ForwardStmts(s0)))) # Params(s0)

ShapesOk(s) ==
    /\ s.pc # "error"
    /\ (s.pc # "setup" =>
          /\ Shape(s.X) = <<Dim(0), N_batch>> /\ Shape(s.y) = <<Dim(2), N_batch>>
          /\ Shape(s.W1) = <<Dim(1), Dim(0)>> /\ Shape(s.b1) = <<Dim(1), 1>>
          /\ Shape(s.W2) = <<Dim(2), Dim(1)>> /\ Shape(s.b2) = <<Dim(2), 1>>)
    /\ (s.Z1 # NoneT => Shape(s.Z1) = <<Dim(1), N_batch>> /\ Shape(s.A1) = <<Dim(1), N_batch>>)
    /\ (s.A2 # NoneT => Shape(s.A2) = <<Dim(2), N_batch>>)
    /\ \A i \in 1..4 : Grads(s)[i] # NoneT => Shape(Grads(s)[i]) = Shape(Params(s)[i])

\* C8: with a conformant size triple no statement raises, parameters keep
\* their shapes through every update, the activations have the documented
\* shapes and each gradient has the shape of its parameter.
C8_ShapesPreserved == ShapesOk(m) /\ ShapesOk(a)

\* C8 witness: two updates done with layer sizes that are not all equal.
C8_Witness ==
    /\ m.cycles = 2 /\ a.cycles = 2
    /\ Dim(0) # Dim(1) /\ Dim(1) # Dim(2) /\ Dim(1) # N_batch

\* the size list gives y another number of rows than W2 and b2, or is too short
Mismatched == Len(dimensions) < 3 \/ DimLast # Dim(2)

\* C9 as stated: with a mismatched size list neither script completes an
\* update (it stops with an error first).
C9_MismatchRaises == Mismatched => m.cycles = 0 /\ a.cycles = 0

\* the parameters after one descent step from s with the gradients G
Descended(s, G) ==
    <<Sub(s.W1, EtaTimes(G[1])), Sub(s.b1, EtaTimes(G[2])),
      Sub(s.W2, EtaTimes(G[3])), Sub(s.b2, EtaTimes(G[4]))>>

====
